---- MODULE Spec2Model ----
(***************************************************************************)
(* Model of the session store of the RAG chatbot backend                   *)
(* (backend/models/session.py, backend/services/session_service.py).       *)
(*                                                                         *)
(* Python objects are references: the dict SessionService.sessions maps a  *)
(* session id to a Session object that callers may keep after the id has   *)
(* left the dict.  The model therefore keeps the objects in `heap` (one    *)
(* object per id ever created, uuid4 ids being unique) and the dict as the *)
(* sequence `sessions` of its keys in insertion order.                     *)
(* Time is counted in hours; datetime.now() reads the variable `now`.      *)
(*                                                                         *)
(* The ranking functions of backend/services/retrieval_service.py are pure *)
(* functions of the stored candidates `docs` and of their arguments; `ret` *)
(* records the last call and what it returned.  Scores are exact integers  *)
(* in thousandths; the rounding of floating point is not modelled.         *)
(***************************************************************************)
EXTENDS Integers, Sequences, FiniteSets, TLC

VARIABLES sessions, heap, now, last, th, docs, ret

vars == <<sessions, heap, now, last, th, docs, ret>>

\* ------------------------------------------------------------ bounds ----
MaxSessions == 2
MaxMessages == 1
MaxLimit == 1
MaxNow == 25
MaxThreads == 2
MaxHistory == 2

\* ---------------------------------------------------------- constants ---
ExpiryHours == 24

SessionIds == 1..MaxSessions
UserIds == {"None", "u1"}
Roles == {"user", "assistant", "system"}
ValidRoles == {"user", "assistant"}
Contents == {"a"}
TickSteps == {24, 25}
NoLimit == <<>>
Limits == {NoLimit} \cup {<<k>> : k \in 0..MaxLimit}
Threads == 1..MaxThreads

\* ------------------------------------------------------------ helpers ---
Keys(d) == {d[i] : i \in 1..Len(d)}

Range(q) == {q[i] : i \in 1..Len(q)}

DictDel(d, k) == SelectSeq(d, LAMBDA x : x # k)

DictSet(d, k) == IF k \in Keys(d) THEN d ELSE Append(d, k)

PySliceFrom(s, start) ==
    LET n == Len(s)
        i == IF start < 0
             THEN (IF n + start < 0 THEN 0 ELSE n + start)
             ELSE (IF start > n THEN n ELSE start)
    IN SubSeq(s, i + 1, n)

\* ------------------------------------------------- models/session.py ----
NewMessage(role, content, t) ==
    [role |-> role, content |-> content]

NewSession(id, user_id, t) ==
    [id |-> id, user_id |-> user_id, created_at |-> t, updated_at |-> t,
     messages |-> <<>>, is_active |-> TRUE]

validate_role(role) == role \in ValidRoles

\* variant: the new message replaces the history instead of extending it
Session_add_message_overwrite(s, role, content, t) ==
    [s EXCEPT !.messages = <<NewMessage(role, content, t)>>,
              !.updated_at = t]

\* variant: the new message is put in front of the history
Session_add_message_prepend(s, role, content, t) ==
    [s EXCEPT !.messages = <<NewMessage(role, content, t)>> \o @,
              !.updated_at = t]

Session_add_message(s, role, content, t) ==
    [s EXCEPT !.messages = Append(@, NewMessage(role, content, t)),
              !.updated_at = t]

Session_get_messages(s, limit) ==
    IF limit = NoLimit
    THEN s.messages
    ELSE IF Len(s.messages) >= limit[1]
         THEN PySliceFrom(s.messages, 0 - limit[1])
         ELSE s.messages

Session_clear_messages(s, t) ==
    [s EXCEPT !.messages = <<>>, !.updated_at = t]

\* variant: the timestamp is not refreshed
update_last_activity_skipped(s, t) == s

update_last_activity(s, t) == [s EXCEPT !.updated_at = t]

\* variant: the boundary counts as expired
is_expired_inclusive(s, t) == t - s.updated_at >= ExpiryHours

is_expired(s, t) == t - s.updated_at > ExpiryHours

\* --------------------------------------- services/session_service.py ----
\* what the last call was and what it returned: `present` tells whether the
\* id was a key of the dict when the call began, `ok` whether the call
\* returned an object / True, `msgs`, `ids` and `n` the returned messages,
\* sessions and number
Result(op, id, user, ok, msgs, ids, n) ==
    [op |-> op, id |-> id, user |-> user, present |-> id \in Keys(sessions),
     ok |-> ok, msgs |-> msgs, ids |-> ids, n |-> n]

\* variant: the lookup without the expiry check
Found_unchecked(id) == id \in Keys(sessions)

\* self.sessions.get(id) followed by the expiry check of get_session
Found(id) == id \in Keys(sessions) /\ ~is_expired(heap[id], now)

\* variant: the lookup takes the session out of the dict
AfterGet_popping(id) == DictDel(sessions, id)

\* the dict as get_session leaves it
AfterGet(id) ==
    IF id \in Keys(sessions) /\ is_expired(heap[id], now)
    THEN DictDel(sessions, id)
    ELSE sessions

\* a request in flight: the method it runs (op), where it stands (pc), its
\* session_id argument (id), its local `session` (ref, 0 for None), the keys
\* it has decided to delete (victims) and how many of them it has deleted
\* (k), the clock value at its append (at), whether it began while another
\* request was in flight (conc) and whether it returned an object / True (ok)
Idle ==
    [op |-> "none", pc |-> "idle", id |-> 0, ref |-> 0, victims |-> <<>>,
     k |-> 0, at |-> 0, conc |-> FALSE, ok |-> FALSE]

\* no ranking call has been made
NoCall == [op |-> "none", query |-> <<>>, k |-> 0, min |-> 0, out |-> <<>>]

Init ==
    /\ sessions = <<>>
    /\ heap = <<>>
    /\ now = 0
    /\ last = [op |-> "init", id |-> 0, user |-> "None", present |-> FALSE,
               ok |-> FALSE, msgs |-> <<>>, ids |-> <<>>, n |-> 0]
    /\ th = [t \in Threads |-> Idle]
    /\ docs = <<>>
    /\ ret = NoCall

Tick(d) ==
    /\ now + d <= MaxNow
    /\ now' = now + d
    /\ last' = Result("tick", 0, "None", TRUE, <<>>, <<>>, 0)
    /\ UNCHANGED <<sessions, heap, th, docs, ret>>

create_session(user_id) ==
    /\ Len(heap) < MaxSessions
    /\ LET id == Len(heap) + 1 IN
        /\ heap' = Append(heap, NewSession(id, user_id, now))
        /\ sessions' = DictSet(sessions, id)
        /\ last' = Result("create_session", 0, "None", TRUE, <<>>, <<id>>, 0)
    /\ UNCHANGED <<now, th, docs, ret>>

get_session(id) ==
    /\ sessions' = AfterGet(id)
    /\ last' = Result("get_session", id, "None", Found(id), <<>>,
                      IF Found(id) THEN <<id>> ELSE <<>>, 0)
    /\ UNCHANGED <<heap, now, th, docs, ret>>

update_session(id) ==
    /\ id \in DOMAIN heap
    /\ heap' = [heap EXCEPT ![id] = update_last_activity(@, now)]
    /\ sessions' = DictSet(sessions, id)
    /\ last' = Result("update_session", id, "None", TRUE, <<>>, <<id>>, 0)
    /\ UNCHANGED <<now, th, docs, ret>>

delete_session(id) ==
    /\ sessions' = DictDel(sessions, id)
    /\ last' = Result("delete_session", id, "None", id \in Keys(sessions), <<>>, <<>>, 0)
    /\ UNCHANGED <<heap, now, th, docs, ret>>

\* session.add_message(...) then self.update_session(session)
AddMessageObject(s, role, content, t) ==
    update_last_activity(Session_add_message(s, role, content, t), t)

\* the history of the session the call would extend is below the cap
Room(id, cap) == Found(id) => Len(heap[id].messages) < cap

add_message_to_session(id, role, content) ==
    /\ IF Found(id)
       THEN /\ heap' = [heap EXCEPT ![id] = AddMessageObject(@, role, content, now)]
            /\ sessions' = DictSet(AfterGet(id), id)
            /\ last' = Result("add_message_to_session", id, "None", TRUE,
                              <<NewMessage(role, content, now)>>, <<>>, 0)
       ELSE /\ heap' = heap
            /\ sessions' = AfterGet(id)
            /\ last' = Result("add_message_to_session", id, "None", FALSE, <<>>, <<>>, 0)
    /\ UNCHANGED <<now, th, docs, ret>>

get_session_messages(id, limit) ==
    /\ sessions' = AfterGet(id)
    /\ last' = Result("get_session_messages", id, "None", Found(id),
                      IF Found(id) THEN Session_get_messages(heap[id], limit)
                                   ELSE <<>>,
                      IF Found(id) THEN <<id>> ELSE <<>>,
                      IF limit = NoLimit THEN 0 - 1 ELSE limit[1])
    /\ UNCHANGED <<heap, now, th, docs, ret>>

clear_session_messages(id) ==
    /\ IF Found(id)
       THEN /\ heap' = [heap EXCEPT ![id] =
                           update_last_activity(Session_clear_messages(@, now), now)]
            /\ sessions' = DictSet(AfterGet(id), id)
       ELSE /\ heap' = heap
            /\ sessions' = AfterGet(id)
    /\ last' = Result("clear_session_messages", id, "None", Found(id), <<>>, <<>>, 0)
    /\ UNCHANGED <<now, th, docs, ret>>

\* the ids the two sweeps collect in expired_sessions
ExpiredKeys == SelectSeq(sessions, LAMBDA k : is_expired(heap[k], now))

\* variant: the removal loop is left out
LiveKeys_unswept == sessions

\* the dict after the removal loop of a sweep
LiveKeys == SelectSeq(sessions, LAMBDA k : ~is_expired(heap[k], now))

get_active_sessions_count ==
    /\ sessions' = LiveKeys
    /\ last' = Result("get_active_sessions_count", 0, "None", TRUE, <<>>, <<>>,
                      Len(LiveKeys))
    /\ UNCHANGED <<heap, now, th, docs, ret>>

cleanup_expired_sessions ==
    /\ sessions' = LiveKeys
    /\ last' = Result("cleanup_expired_sessions", 0, "None", TRUE, <<>>, <<>>,
                      Len(ExpiredKeys))
    /\ UNCHANGED <<heap, now, th, docs, ret>>

\* variant: the scan without the expiry check
UserSessions_unchecked(user_id) ==
    SelectSeq(sessions, LAMBDA k : heap[k].user_id = user_id)

\* the list built by the scan of get_user_sessions
UserSessions(user_id) ==
    SelectSeq(sessions, LAMBDA k : heap[k].user_id = user_id
                                   /\ ~is_expired(heap[k], now))

\* variant: the scan removes the expired sessions of the user it meets
UserSessionsStore_evicting(user_id) ==
    SelectSeq(sessions, LAMBDA k : ~(heap[k].user_id = user_id
                                     /\ is_expired(heap[k], now)))

\* the dict as get_user_sessions leaves it
UserSessionsStore(user_id) == sessions

get_user_sessions(user_id) ==
    /\ sessions' = UserSessionsStore(user_id)
    /\ last' = Result("get_user_sessions", 0, user_id, TRUE, <<>>,
                      UserSessions(user_id), 0)
    /\ UNCHANGED <<heap, now, th, docs, ret>>

\* variant: the flag is left as it was
EndSessionObject_active(s, t) == update_last_activity(s, t)

EndSessionObject(s, t) ==
    update_last_activity(update_last_activity([s EXCEPT !.is_active = FALSE], t), t)

end_session(id) ==
    /\ IF Found(id)
       THEN /\ heap' = [heap EXCEPT ![id] = EndSessionObject(@, now)]
            /\ sessions' = DictSet(AfterGet(id), id)
       ELSE /\ heap' = heap
            /\ sessions' = AfterGet(id)
    /\ last' = Result("end_session", id, "None", Found(id), <<>>, <<>>, 0)
    /\ UNCHANGED <<now, th, docs, ret>>

get_session_summary(id) ==
    /\ sessions' = AfterGet(id)
    /\ last' = Result("get_session_summary", id, "None", Found(id), <<>>,
                      IF Found(id) THEN <<id>> ELSE <<>>,
                      IF Found(id) THEN Len(heap[id].messages) ELSE 0)
    /\ UNCHANGED <<heap, now, th, docs, ret>>

Next ==
    \/ \E d \in TickSteps : Tick(d)
    \/ \E u \in UserIds : create_session(u)
    \/ \E id \in SessionIds : get_session(id)
    \/ \E id \in SessionIds : update_session(id)
    \/ \E id \in SessionIds : delete_session(id)
    \/ \E id \in SessionIds, r \in Roles, c \in Contents :
           Room(id, MaxMessages) /\ add_message_to_session(id, r, c)
    \/ \E id \in SessionIds, l \in Limits : get_session_messages(id, l)
    \/ \E id \in SessionIds : clear_session_messages(id)
    \/ get_active_sessions_count
    \/ cleanup_expired_sessions
    \/ \E u \in UserIds : get_user_sessions(u)
    \/ \E id \in SessionIds : end_session(id)
    \/ \E id \in SessionIds : get_session_summary(id)

Spec == Init /\ [][Next]_vars

\* The same calls for one user and the two valid roles, with histories of
\* up to MaxHistory messages.
NextHistory ==
    \/ \E d \in TickSteps : Tick(d)
    \/ create_session("u1")
    \/ \E id \in SessionIds : get_session(id)
    \/ \E id \in SessionIds : update_session(id)
    \/ \E id \in SessionIds : delete_session(id)
    \/ \E id \in SessionIds, r \in ValidRoles, c \in Contents :
           Room(id, MaxHistory) /\ add_message_to_session(id, r, c)
    \/ \E id \in SessionIds, l \in Limits : get_session_messages(id, l)
    \/ \E id \in SessionIds : clear_session_messages(id)
    \/ get_active_sessions_count
    \/ cleanup_expired_sessions
    \/ get_user_sessions("u1")
    \/ \E id \in SessionIds : end_session(id)
    \/ \E id \in SessionIds : get_session_summary(id)

SpecHistory == Init /\ [][NextHistory]_vars

\* ------------------------------------------------ requests in flight ----
\* The service holds no lock (SessionService.__init__ creates a plain dict),
\* so the steps of two requests may interleave.  A request is cut at the
\* points named by the method bodies: between the dict lookup with its
\* expiry check and the `del`, between get_session, session.add_message and
\* update_session, between the membership test and the `del`, and between
\* the scan of a sweep and each `del` of its removal loop.  `del` of a key
\* that is no longer in the dict raises KeyError (pc = "error").
ThreadContent(t) == IF t = 1 THEN "a" ELSE "b"

InFlight(t) == th[t].pc \notin {"idle", "done", "error"}

Begin(t, op, id) ==
    [Idle EXCEPT !.op = op, !.id = id,
                 !.conc = \E u \in Threads \ {t} : InFlight(u)]

\* session = self.sessions.get(id) and the expiry check, in get_session
\* called directly (op = "get") or from add_message_to_session (op = "add")
get_session_lookup(t, op, id) ==
    /\ th[t].pc = "idle"
    /\ th' = [th EXCEPT ![t] =
                IF id \notin Keys(sessions)
                THEN [Begin(t, op, id) EXCEPT !.pc = "done"]
                ELSE IF is_expired(heap[id], now)
                     THEN [Begin(t, op, id) EXCEPT !.pc = "evict",
                                                   !.victims = <<id>>]
                     ELSE [Begin(t, op, id) EXCEPT
                              !.ref = id,
                              !.ok = (op = "get"),
                              !.pc = IF op = "get" THEN "done" ELSE "append"]]
    /\ UNCHANGED <<sessions, heap, now, last, docs, ret>>

\* del self.sessions[session_id]; return None
get_session_evict(t) ==
    /\ th[t].pc = "evict"
    /\ IF th[t].id \in Keys(sessions)
       THEN /\ sessions' = DictDel(sessions, th[t].id)
            /\ th' = [th EXCEPT ![t].pc = "done", ![t].k = 1]
       ELSE /\ sessions' = sessions
            /\ th' = [th EXCEPT ![t].pc = "error"]
    /\ UNCHANGED <<heap, now, last, docs, ret>>

\* message = session.add_message(role, content, metadata)
add_message_append(t) ==
    /\ th[t].pc = "append"
    /\ heap' = [heap EXCEPT ![th[t].ref] =
                   Session_add_message(@, "user", ThreadContent(t), now)]
    /\ th' = [th EXCEPT ![t].pc = "update", ![t].at = now]
    /\ UNCHANGED <<sessions, now, last, docs, ret>>

\* self.update_session(session); return message
add_message_update(t) ==
    /\ th[t].pc = "update"
    /\ heap' = [heap EXCEPT ![th[t].ref] = update_last_activity(@, now)]
    /\ sessions' = DictSet(sessions, th[t].ref)
    /\ th' = [th EXCEPT ![t].pc = "done", ![t].ok = TRUE]
    /\ UNCHANGED <<now, last, docs, ret>>

\* if session_id in self.sessions
delete_session_check(t, id) ==
    /\ th[t].pc = "idle"
    /\ th' = [th EXCEPT ![t] =
                IF id \in Keys(sessions)
                THEN [Begin(t, "delete", id) EXCEPT !.pc = "del",
                                                    !.victims = <<id>>]
                ELSE [Begin(t, "delete", id) EXCEPT !.pc = "done"]]
    /\ UNCHANGED <<sessions, heap, now, last, docs, ret>>

\* del self.sessions[session_id]; return True
delete_session_del(t) ==
    /\ th[t].pc = "del"
    /\ IF th[t].id \in Keys(sessions)
       THEN /\ sessions' = DictDel(sessions, th[t].id)
            /\ th' = [th EXCEPT ![t].pc = "done", ![t].k = 1, ![t].ok = TRUE]
       ELSE /\ sessions' = sessions
            /\ th' = [th EXCEPT ![t].pc = "error"]
    /\ UNCHANGED <<heap, now, last, docs, ret>>

\* the scan of cleanup_expired_sessions (op = "cleanup") or of
\* get_active_sessions_count (op = "count"), which fills expired_sessions
sweep_scan(t, op) ==
    /\ th[t].pc = "idle"
    /\ th' = [th EXCEPT ![t] =
                [Begin(t, op, 0) EXCEPT
                    !.victims = ExpiredKeys,
                    !.ok = (ExpiredKeys = <<>>),
                    !.pc = IF ExpiredKeys = <<>> THEN "done" ELSE "sweep"]]
    /\ UNCHANGED <<sessions, heap, now, last, docs, ret>>

\* one turn of `for session_id in expired_sessions: del self.sessions[...]`
sweep_del(t) ==
    /\ th[t].pc = "sweep"
    /\ LET key == th[t].victims[th[t].k + 1] IN
        IF key \in Keys(sessions)
        THEN /\ sessions' = DictDel(sessions, key)
             /\ th' = [th EXCEPT
                         ![t].k = @ + 1,
                         ![t].ok = (th[t].k + 1 = Len(th[t].victims)),
                         ![t].pc = IF th[t].k + 1 = Len(th[t].victims)
                                   THEN "done" ELSE "sweep"]
        ELSE /\ sessions' = sessions
             /\ th' = [th EXCEPT ![t].pc = "error"]
    /\ UNCHANGED <<heap, now, last, docs, ret>>

NextConc ==
    \/ \E d \in TickSteps : Tick(d)
    \/ \E u \in UserIds : create_session(u)
    \/ \E t \in Threads, op \in {"get", "add"}, id \in SessionIds :
           get_session_lookup(t, op, id)
    \/ \E t \in Threads : get_session_evict(t)
    \/ \E t \in Threads : add_message_append(t)
    \/ \E t \in Threads : add_message_update(t)
    \/ \E t \in Threads, id \in SessionIds : delete_session_check(t, id)
    \/ \E t \in Threads : delete_session_del(t)
    \/ \E t \in Threads, op \in {"cleanup", "count"} : sweep_scan(t, op)
    \/ \E t \in Threads : sweep_del(t)

SpecConc == Init /\ [][NextConc]_vars

\* --------------------------------------- services/retrieval_service.py ----
MaxDocs == 4
MaxRanked == 3

\* a score of 1.0
Scale == 1000

\* embedding vectors with whole-number norms, so that every cosine is an
\* exact multiple of 1/1000
Embeddings == {<<0, 0>>, <<1, 0>>, <<3, 4>>, <<4, 3>>, <<0 - 1, 0>>}
RankEmbeddings == {<<0, 0>>, <<1, 0>>, <<3, 4>>, <<4, 3>>}
Queries == Embeddings
RankQueries == {<<1, 0>>, <<3, 4>>}
MinScores == {0 - 1000, 0, 800}
Thresholds == {800, 960}
NoQuality == <<>>
Qualities == {NoQuality, <<1000>>}
InputScores == {0, 900}

\* a candidate: the fields of a document dict that the ranking reads or
\* writes (metadata is reduced to its quality_score entry)
Doc(id, embedding, quality, score) ==
    [id |-> id, embedding |-> embedding, quality |-> quality, score |-> score]

RECURSIVE DotFrom(_, _, _)
DotFrom(a, b, i) ==
    IF i > Len(a) THEN 0 ELSE a[i] * b[i] + DotFrom(a, b, i + 1)

Dot(a, b) == DotFrom(a, b, 1)

Norm(a) == CHOOSE n \in 0..Dot(a, a) : n * n = Dot(a, a)

cosine_similarity(a, b) ==
    IF Norm(a) = 0 \/ Norm(b) = 0
    THEN 0
    ELSE (Scale * Dot(a, b)) \div (Norm(a) * Norm(b))

\* the vectorised quotient of find_similar_documents: a zero norm is
\* replaced by 1e-10, the dot product with a zero vector is 0, so is the
\* quotient
Similarity(query, embedding) ==
    IF Norm(query) = 0 \/ Norm(embedding) = 0
    THEN 0
    ELSE (Scale * Dot(embedding, query)) \div (Norm(query) * Norm(embedding))

similarities(query) ==
    [i \in 1..Len(docs) |-> Similarity(query, docs[i].embedding)]

\* a[idx] of numpy, with positions counted from 1
Take(a, idx) == [i \in 1..Len(idx) |-> a[idx[i]]]

Reverse(p) == [i \in 1..Len(p) |-> p[Len(p) + 1 - i]]

RECURSIVE Perms(_)
Perms(S) ==
    IF S = {} THEN {<<>>}
    ELSE UNION {{<<x>> \o r : r \in Perms(S \ {x})} : x \in S}

\* np.argsort(a): the default sort kind is not stable, so every ascending
\* order of the positions is a possible result
ArgSorts(a) ==
    {p \in Perms(1..Len(a)) :
        \A i \in 1..(Len(a) - 1) : a[p[i]] <= a[p[i + 1]]}

\* the position (from 1) that kth = -top_k names in an array of length n;
\* -0 is 0, the first position
KthPosition(n, top_k) == IF top_k = 0 THEN 1 ELSE n - top_k + 1

\* np.argpartition(a, -top_k): the element at the kth position is in its
\* sorted place, smaller ones before it and larger ones after it, in an
\* order the library does not fix
ArgPartitions(a, top_k) ==
    LET kth == KthPosition(Len(a), top_k) IN
    {p \in Perms(1..Len(a)) :
        \A i \in 1..Len(a) :
            /\ i < kth => a[p[i]] <= a[p[kth]]
            /\ i > kth => a[p[i]] >= a[p[kth]]}

\* variant: the threshold is exclusive
valid_indices_exclusive(sims, min_score) ==
    SelectSeq([i \in 1..Len(sims) |-> i], LAMBDA i : sims[i] > min_score)

\* np.where(similarities >= min_score)[0]
valid_indices(sims, min_score) ==
    SelectSeq([i \in 1..Len(sims) |-> i], LAMBDA i : sims[i] >= min_score)

\* the values of top_indices that find_similar_documents can compute
top_indices(query, top_k, min_score) ==
    LET sims == similarities(query)
        valid == valid_indices(sims, min_score)
    IN IF docs = <<>> \/ valid = <<>>
       THEN {<<>>}
       ELSE IF Len(valid) <= top_k
       THEN {Take(valid, Reverse(p)) : p \in ArgSorts(Take(sims, valid))}
       ELSE UNION {
              {Take(valid, Take(top_k_indices, Reverse(p))) :
                  p \in ArgSorts(Take(sims, top_k_indices))} :
              top_k_indices \in
                  {PySliceFrom(q, 0 - top_k) :
                      q \in ArgPartitions(Take(sims, valid), top_k)}}

\* doc = self.embedded_docs[idx].copy(); doc['score'] = similarities[idx]
top_docs(query, idx) ==
    [i \in 1..Len(idx) |->
        [docs[idx[i]] EXCEPT !.score = similarities(query)[idx[i]]]]

\* the function is pure: one call on each drawn input
find_similar_documents(query, top_k, min_score) ==
    /\ ret = NoCall
    /\ \E idx \in top_indices(query, top_k, min_score) :
           ret' = [op |-> "find_similar_documents", query |-> query,
                   k |-> top_k, min |-> min_score,
                   out |-> top_docs(query, idx)]
    /\ UNCHANGED <<sessions, heap, now, last, th, docs>>

\* the stored candidates: any list of up to MaxDocs embedded documents
InitFind ==
    /\ sessions = <<>>
    /\ heap = <<>>
    /\ now = 0
    /\ last = [op |-> "init", id |-> 0, user |-> "None", present |-> FALSE,
               ok |-> FALSE, msgs |-> <<>>, ids |-> <<>>, n |-> 0]
    /\ th = [t \in Threads |-> Idle]
    /\ \E n \in 0..MaxDocs :
           \E e \in [1..n -> Embeddings] :
               docs = [i \in 1..n |-> Doc(i, e[i], NoQuality, 0)]
    /\ ret = NoCall

NextFind ==
    \E q \in Queries, k \in 0..MaxDocs, m \in MinScores :
        find_similar_documents(q, k, m)

SpecFind == InitFind /\ [][NextFind]_vars

\* ------------------------------------------- reranking and diversity ----
PyMin(a, b) == IF a < b THEN a ELSE b

PyMax(a, b) == IF a > b THEN a ELSE b

\* base_score * 0.7 + quality_factor * 0.3, clamped to [0, 1]
calculate_relevance_score(query, embedding, quality) ==
    LET base_score == cosine_similarity(query, embedding)
        adjusted_score == IF quality = NoQuality
                          THEN base_score
                          ELSE (7 * base_score + 3 * quality[1]) \div 10
    IN PyMax(0, PyMin(Scale, adjusted_score))

\* `if rerank_top_k`: None and 0 are both false
Truthy(rerank_top_k) == rerank_top_k # NoLimit /\ rerank_top_k[1] # 0

docs_to_rerank(documents, rerank_top_k) ==
    IF Truthy(rerank_top_k)
    THEN SubSeq(documents, 1, PyMin(rerank_top_k[1], Len(documents)))
    ELSE documents

\* updated_doc = doc.copy(); updated_doc['score'] = enhanced_score
updated_doc(query, doc) ==
    [doc EXCEPT !.score =
        calculate_relevance_score(query, doc.embedding, doc.quality)]

\* list.sort(key=score, reverse=True) is stable: a document goes behind
\* the documents of greater or equal score that precede it in the list
InsertDescending(sorted, doc) ==
    LET pos == Cardinality({i \in 1..Len(sorted) : sorted[i].score >= doc.score})
    IN SubSeq(sorted, 1, pos) \o <<doc>> \o SubSeq(sorted, pos + 1, Len(sorted))

RECURSIVE SortFrom(_, _, _)
SortFrom(list, i, sorted) ==
    IF i > Len(list) THEN sorted
    ELSE SortFrom(list, i + 1, InsertDescending(sorted, list[i]))

sort_reverse(list) == SortFrom(list, 1, <<>>)

reranked_docs(query, documents, rerank_top_k) ==
    IF documents = <<>>
    THEN documents
    ELSE LET head == docs_to_rerank(documents, rerank_top_k)
             scored == [i \in 1..Len(head) |-> updated_doc(query, head[i])]
         IN sort_reverse(scored)
            \o (IF Truthy(rerank_top_k) /\ Len(documents) > rerank_top_k[1]
                THEN SubSeq(documents, rerank_top_k[1] + 1, Len(documents))
                ELSE <<>>)

rerank_documents(query, rerank_top_k) ==
    /\ ret = NoCall
    /\ ret' = [op |-> "rerank_documents", query |-> query,
               k |-> IF rerank_top_k = NoLimit THEN 0 - 1 ELSE rerank_top_k[1],
               min |-> 0,
               out |-> reranked_docs(query, docs, rerank_top_k)]
    /\ UNCHANGED <<sessions, heap, now, last, th, docs>>

\* variant: a document is compared with the last selected document only
TooSimilar_last(doc, selected, threshold) ==
    cosine_similarity(doc.embedding, selected[Len(selected)].embedding)
        > threshold

\* variant: a similarity equal to the threshold counts as too similar
TooSimilar_inclusive(doc, selected, threshold) ==
    \E j \in 1..Len(selected) :
        cosine_similarity(doc.embedding, selected[j].embedding) >= threshold

\* the inner loop of apply_diversity_filter: is_diverse is False
TooSimilar(doc, selected, threshold) ==
    \E j \in 1..Len(selected) :
        cosine_similarity(doc.embedding, selected[j].embedding) > threshold

RECURSIVE SelectFrom(_, _, _, _)
SelectFrom(documents, i, selected, threshold) ==
    IF i > Len(documents) THEN selected
    ELSE SelectFrom(documents, i + 1,
                    IF TooSimilar(documents[i], selected, threshold)
                    THEN selected
                    ELSE Append(selected, documents[i]),
                    threshold)

selected_docs(documents, threshold) ==
    IF Len(documents) <= 1
    THEN documents
    ELSE SelectFrom(documents, 2, <<documents[1]>>, threshold)

apply_diversity_filter(threshold) ==
    /\ ret = NoCall
    /\ ret' = [op |-> "apply_diversity_filter", query |-> <<>>, k |-> 0,
               min |-> threshold, out |-> selected_docs(docs, threshold)]
    /\ UNCHANGED <<sessions, heap, now, last, th, docs>>

RankLimits == {NoLimit} \cup {<<k>> : k \in 0..MaxRanked}

\* the list handed to the reranker or the filter: any list of up to
\* MaxRanked scored documents
InitRank ==
    /\ sessions = <<>>
    /\ heap = <<>>
    /\ now = 0
    /\ last = [op |-> "init", id |-> 0, user |-> "None", present |-> FALSE,
               ok |-> FALSE, msgs |-> <<>>, ids |-> <<>>, n |-> 0]
    /\ th = [t \in Threads |-> Idle]
    /\ \E n \in 0..MaxRanked :
           \E e \in [1..n -> RankEmbeddings], q \in [1..n -> Qualities],
              sc \in [1..n -> InputScores] :
               docs = [i \in 1..n |-> Doc(i, e[i], q[i], sc[i])]
    /\ ret = NoCall

NextRank ==
    \/ \E q \in RankQueries, l \in RankLimits : rerank_documents(q, l)
    \/ \E t \in Thresholds : apply_diversity_filter(t)

SpecRank == InitRank /\ [][NextRank]_vars

\* ---------------------------------------- services/citation_service.py ----
\* Strings are sequences of characters, positions are counted from 0 as in
\* Python.
MaxContent == 5
MaxSnippet == 3

PreviewChars == {"a", "A", "b", " "}
NoneQuery == <<>>
PreviewQueries ==
    {NoneQuery, << <<>> >>, << <<" ">> >>, << <<"a">> >>, << <<"A">> >>,
     << <<"b">> >>, << <<"a", " ", "b">> >>}
Ellipsis == <<".", ".", ".">>
Separator == <<" ", ".", ".", ".", " ">>

\* str.lower()
Lower(s) == [i \in 1..Len(s) |-> IF s[i] = "A" THEN "a" ELSE s[i]]

\* str.split(): the maximal runs of characters that are not white space
RECURSIVE SplitFrom(_, _, _, _)
SplitFrom(s, i, word, words) ==
    LET closed == IF word = <<>> THEN words ELSE Append(words, word) IN
    IF i > Len(s) THEN closed
    ELSE IF s[i] = " " THEN SplitFrom(s, i + 1, <<>>, closed)
    ELSE SplitFrom(s, i + 1, Append(word, s[i]), words)

Split(s) == SplitFrom(s, 1, <<>>, <<>>)

\* s[start:end] for 0 <= start, end <= len(s)
Slice(s, start, end) == SubSeq(s, start + 1, end)

OccursAt(s, word, p) ==
    p + Len(word) <= Len(s) /\ Slice(s, p, p + Len(word)) = word

\* str.find(word, start)
Find(s, word, start) ==
    IF \E p \in start..Len(s) : OccursAt(s, word, p)
    THEN CHOOSE p \in start..Len(s) :
             /\ OccursAt(s, word, p)
             /\ \A q \in start..(p - 1) : ~OccursAt(s, word, q)
    ELSE 0 - 1

\* the `while True` loop: every position at which word occurs
RECURSIVE PositionsFrom(_, _, _)
PositionsFrom(s, word, start) ==
    LET pos == Find(s, word, start) IN
    IF pos = 0 - 1 THEN <<>>
    ELSE <<pos>> \o PositionsFrom(s, word, pos + 1)

RECURSIVE PositionsOfWords(_, _, _)
PositionsOfWords(s, words, i) ==
    IF i > Len(words) THEN <<>>
    ELSE PositionsFrom(s, words[i], 0) \o PositionsOfWords(s, words, i + 1)

\* sorted(set(positions))
RECURSIVE SortedSet(_)
SortedSet(S) ==
    IF S = {} THEN <<>>
    ELSE LET m == CHOOSE x \in S : \A y \in S : x <= y
         IN <<m>> \o SortedSet(S \ {m})

term_positions(content, query) ==
    PositionsOfWords(Lower(content), Split(Lower(query)), 1)

\* str.strip()
RECURSIVE Strip(_)
Strip(s) ==
    IF s = <<>> THEN s
    ELSE IF s[1] = " " THEN Strip(Tail(s))
    ELSE IF s[Len(s)] = " " THEN Strip(SubSeq(s, 1, Len(s) - 1))
    ELSE s

\* separator.join(list)
RECURSIVE Join(_, _)
Join(sep, list) ==
    IF list = <<>> THEN <<>>
    ELSE IF Len(list) = 1 THEN list[1]
    ELSE list[1] \o sep \o Join(sep, Tail(list))

truncate_content(content, max_length) ==
    IF Len(content) <= max_length
    THEN content
    ELSE SubSeq(content, 1, max_length) \o Ellipsis

\* `if pos < processed_end: continue`
Covered(pos, processed_end) == pos < processed_end

\* the window cut around pos: its start and end in content
Window(content, pos, snippet_size) ==
    LET start == PyMax(0, pos - snippet_size \div 2)
        end == PyMin(Len(content), start + snippet_size)
    IN [start |-> IF end - start < snippet_size
                  THEN PyMax(0, end - snippet_size)
                  ELSE start,
        end |-> end]

\* the loop over term_positions: the windows of the snippets it collects
RECURSIVE WindowsFrom(_, _, _, _, _, _)
WindowsFrom(content, positions, i, windows, processed_end, snippet_size) ==
    IF i > Len(positions) \/ Len(windows) >= 2 THEN windows
    ELSE IF Covered(positions[i], processed_end)
    THEN WindowsFrom(content, positions, i + 1, windows, processed_end,
                     snippet_size)
    ELSE LET w == Window(content, positions[i], snippet_size)
         IN WindowsFrom(content, positions, i + 1, Append(windows, w),
                        w.end, snippet_size)

snippet_windows(content, query, snippet_size) ==
    IF query = NoneQuery \/ query[1] = <<>>
    THEN <<>>
    ELSE LET found == term_positions(content, query[1])
         IN WindowsFrom(content, SortedSet(Range(found)), 1, <<>>, 0 - 1,
                        snippet_size)

context_preview(content, query, snippet_size) ==
    LET windows == snippet_windows(content, query, snippet_size)
        snippets == [i \in 1..Len(windows) |->
                        Strip(Slice(content, windows[i].start, windows[i].end))]
        preview == Join(Separator, snippets)
    IN IF windows = <<>>
       THEN truncate_content(content, snippet_size)
       ELSE IF Len(preview) > snippet_size * 2
       THEN truncate_content(preview, snippet_size * 2)
       ELSE preview

\* the content of the document the preview is made from is docs[1].content
create_context_preview(query, snippet_size) ==
    /\ ret = NoCall
    /\ ret' = [op |-> "create_context_preview", query |-> query,
               k |-> snippet_size, min |-> 0,
               out |-> context_preview(docs[1].content, query, snippet_size),
               windows |-> snippet_windows(docs[1].content, query, snippet_size)]
    /\ UNCHANGED <<sessions, heap, now, last, th, docs>>

Strings(chars, n) == UNION {[1..m -> chars] : m \in 0..n}

InitPreview ==
    /\ sessions = <<>>
    /\ heap = <<>>
    /\ now = 0
    /\ last = [op |-> "init", id |-> 0, user |-> "None", present |-> FALSE,
               ok |-> FALSE, msgs |-> <<>>, ids |-> <<>>, n |-> 0]
    /\ th = [t \in Threads |-> Idle]
    /\ \E c \in Strings(PreviewChars, MaxContent) : docs = <<[content |-> c]>>
    /\ ret = NoCall

NextPreview ==
    \E q \in PreviewQueries, n \in 1..MaxSnippet : create_context_preview(q, n)

SpecPreview == InitPreview /\ [][NextPreview]_vars

\* ------------------------------------------------- source references ----
MaxCited == 2

\* max_length of the content preview of a source reference
PreviewLength == 200

ContentLengths == {150, 200, 201, 300}
NoPath == <<>>
Paths == {NoPath, <<"docs/intro.md">>}
CiteScores == {0 - 600, 0, 199, 200, 399, 400, 599, 600, 799, 800, 1000}

\* a content of n characters
Repeat(c, n) == [i \in 1..n |-> c]

\* a retrieved document: the keys create_source_references reads
\* (metadata is reduced to its relative_path entry)
RetrievedDoc(id, path, score, content) ==
    [id |-> id, path |-> path, score |-> score, content |-> content]

\* variant: every preview ends with the ellipsis
content_preview_marked(content) ==
    SubSeq(content, 1, PyMin(Len(content), PreviewLength)) \o Ellipsis

\* self._truncate_content(doc['content'], 200)
content_preview(content) == truncate_content(content, PreviewLength)

\* Field(..., ge=0.0, le=1.0) of SourceReference.score
ValidScore(score) == 0 <= score /\ score <= Scale

SourceReference(doc) ==
    [document_id |-> doc.id,
     relative_path |-> IF doc.path = NoPath THEN "Unknown" ELSE doc.path[1],
     score |-> doc.score,
     content_preview |-> content_preview(doc.content)]

\* the constructor of SourceReference raises a validation error on a score
\* outside [0, 1], and create_source_references does not catch it
create_source_references ==
    /\ ret = NoCall
    /\ LET raised == \E i \in 1..Len(docs) : ~ValidScore(docs[i].score) IN
       ret' = [op |-> "create_source_references", query |-> <<>>, k |-> 0,
               min |-> 0, raised |-> raised,
               out |-> IF raised THEN <<>>
                       ELSE [i \in 1..Len(docs) |-> SourceReference(docs[i])],
               previews |-> <<>>]
    /\ UNCHANGED <<sessions, heap, now, last, th, docs>>

\* variant: the two middle labels are exchanged
get_relevance_indicator_swapped(score) ==
    IF score >= 800 THEN "Highly Relevant"
    ELSE IF score >= 600 THEN "Moderately Relevant"
    ELSE IF score >= 400 THEN "Relevant"
    ELSE IF score >= 200 THEN "Slightly Relevant"
    ELSE "Minimally Relevant"

get_relevance_indicator(score) ==
    IF score >= 800 THEN "Highly Relevant"
    ELSE IF score >= 600 THEN "Relevant"
    ELSE IF score >= 400 THEN "Moderately Relevant"
    ELSE IF score >= 200 THEN "Slightly Relevant"
    ELSE "Minimally Relevant"

source_preview(source_ref) ==
    [document_id |-> source_ref.document_id,
     relative_path |-> source_ref.relative_path,
     score |-> source_ref.score,
     preview |-> source_ref.content_preview,
     relevance_indicator |-> get_relevance_indicator(source_ref.score),
     content_length |-> Len(source_ref.content_preview)]

\* create_source_preview(source_ref) for the next of the sources made by
\* create_source_references; ret.previews collects the returned dicts
create_source_preview ==
    /\ ret.op \in {"create_source_references", "create_source_preview"}
    /\ Len(ret.previews) < Len(ret.out)
    /\ ret' = [ret EXCEPT
                 !.op = "create_source_preview",
                 !.previews = Append(@, source_preview(ret.out[Len(@) + 1]))]
    /\ UNCHANGED <<sessions, heap, now, last, th, docs>>

InitCite ==
    /\ sessions = <<>>
    /\ heap = <<>>
    /\ now = 0
    /\ last = [op |-> "init", id |-> 0, user |-> "None", present |-> FALSE,
               ok |-> FALSE, msgs |-> <<>>, ids |-> <<>>, n |-> 0]
    /\ th = [t \in Threads |-> Idle]
    /\ \E n \in 0..MaxCited :
           \E p \in [1..n -> Paths], sc \in [1..n -> CiteScores],
              l \in [1..n -> ContentLengths] :
               docs = [i \in 1..n |->
                          RetrievedDoc(ToString(i), p[i], sc[i], Repeat("a", l[i]))]
    /\ ret = NoCall

NextCite ==
    \/ create_source_references
    \/ create_source_preview

SpecCite == InitCite /\ [][NextCite]_vars

\* -------------------------------------------- embeddings/chunking.py ----
\* chunk_text walks the text with a scan position `start`; one action is one
\* iteration of its while loop.  The text is docs[1].content, a sequence of
\* characters with Python's 0-based positions; ret holds the call's
\* arguments (k = chunk_size, min = overlap), the loop variables start and
\* chunks, and the returned list (out) once pc is "done".
MaxText == 8
MaxChunk == 7
MaxIterations == 4

\* len(chunk.strip()) > 20
MinStripped == 20

ChunkChars == {"a", ".", " "}
SentenceEnd == <<".", " ">>
NoLength == <<>>
MaxLengths == {NoLength} \cup {<<n>> : n \in 0..MaxChunk}
Chunkers == {[chunk_size |-> MaxChunk, overlap |-> o] : o \in {0, MaxChunk - 1}}

\* a slice bound as Python normalises it: negative counts from the end,
\* and the result is clamped to 0..len
SliceBound(s, i) ==
    IF i < 0 THEN PyMax(Len(s) + i, 0) ELSE PyMin(i, Len(s))

\* text[start:end]
PySlice(s, start, end) ==
    SubSeq(s, SliceBound(s, start) + 1, SliceBound(s, end))

\* str.rfind(word): the highest position where word occurs, or -1
RFind(s, word) ==
    LET hits == {p \in 0..Len(s) : OccursAt(s, word, p)}
    IN  IF hits = {} THEN 0 - 1
        ELSE CHOOSE p \in hits : \A q \in hits : q <= p

LongEnough(chunk) == Len(Strip(chunk)) > MinStripped

ChunkCall(chunk_size, overlap) ==
    [op |-> "chunk_text", query |-> <<>>, k |-> chunk_size, min |-> overlap,
     out |-> <<>>, pc |-> "loop", start |-> 0, chunks |-> <<>>]

\* entry of chunk_text: a text no longer than chunk_size is returned whole
chunk_text_call(chunk_size, overlap) ==
    /\ ret = NoCall
    /\ ret' = IF Len(docs[1].content) <= chunk_size
              THEN [ChunkCall(chunk_size, overlap) EXCEPT
                       !.pc = "done", !.out = <<docs[1].content>>]
              ELSE ChunkCall(chunk_size, overlap)
    /\ UNCHANGED <<sessions, heap, now, last, th, docs>>

\* DocumentChunker.chunk_text: max_length replaces self.chunk_size when it is
\* truthy, self.overlap is passed on as it is
DocumentChunker_chunk_text(self, max_length) ==
    chunk_text_call(IF max_length # NoLength /\ max_length[1] # 0
                    THEN max_length[1] ELSE self.chunk_size,
                    self.overlap)

\* start = end - overlap if end < len(text) else len(text)
next_start(text, start, end, overlap) ==
    IF end < Len(text) THEN end - overlap ELSE Len(text)

\* one iteration of `while start < len(text)`
chunk_text_loop ==
    /\ ret.op = "chunk_text"
    /\ ret.pc = "loop"
    /\ ret.start < Len(docs[1].content)
    /\ Len(ret.chunks) < MaxIterations
    /\ LET text == docs[1].content
           chunk_size == ret.k
           start == ret.start
           end0 == start + chunk_size
           chunk0 == PySlice(text, start, end0)
           sentence_end == RFind(chunk0, SentenceEnd)
           cut == end0 < Len(text) /\ sentence_end > chunk_size \div 2
           chunk == IF cut THEN PySlice(text, start, start + sentence_end + 2)
                    ELSE chunk0
           end == IF cut THEN start + sentence_end + 2 ELSE end0
       IN  ret' = [ret EXCEPT !.chunks = Append(@, chunk),
                              !.start = next_start(text, start, end, ret.min)]
    /\ UNCHANGED <<sessions, heap, now, last, th, docs>>

\* loop exit: the short chunks are filtered out and the list is returned
chunk_text_return ==
    /\ ret.op = "chunk_text"
    /\ ret.pc = "loop"
    /\ ret.start >= Len(docs[1].content)
    /\ ret' = [ret EXCEPT !.pc = "done",
                          !.out = SelectSeq(ret.chunks, LongEnough)]
    /\ UNCHANGED <<sessions, heap, now, last, th, docs>>

InitChunk ==
    /\ sessions = <<>>
    /\ heap = <<>>
    /\ now = 0
    /\ last = [op |-> "init", id |-> 0, user |-> "None", present |-> FALSE,
               ok |-> FALSE, msgs |-> <<>>, ids |-> <<>>, n |-> 0]
    /\ th = [t \in Threads |-> Idle]
    /\ \E c \in Strings(ChunkChars, MaxText) : docs = <<[content |-> c]>>
    /\ ret = NoCall

NextChunk ==
    \/ \E chunk_size \in 1..MaxChunk :
           \E overlap \in 0..chunk_size - 1 :
               chunk_text_call(chunk_size, overlap)
    \/ \E self \in Chunkers, max_length \in MaxLengths :
           DocumentChunker_chunk_text(self, max_length)
    \/ chunk_text_loop
    \/ chunk_text_return

SpecChunk == InitChunk /\ [][NextChunk]_vars

\* ================================================================ claims
\* The claims state expiry by the rule of the specification,
\* now - updated_at > 24 hours, not by the model's is_expired.
Age(id) == now - heap[id].updated_at


\* C1: get_session on a stored session older than the expiry window returns
\* None and removes the id from the store; a stored session of age <= 24
\* hours (boundary included) is returned and stays in the store.
C1_GetSessionEvictsExpired ==
    (last.op = "get_session" /\ last.present) =>
        IF Age(last.id) > ExpiryHours
        THEN ~last.ok /\ last.ids = <<>> /\ last.id \notin Keys(sessions)
        ELSE last.ok /\ last.ids = <<last.id>> /\ last.id \in Keys(sessions)

C1_Witness ==
    /\ last.op = "get_session"
    /\ last.present
    /\ Age(last.id) > ExpiryHours
    /\ ~last.ok
    /\ last.id \notin Keys(sessions)

\* C2: no lookup (get_session, get_session_messages, get_session_summary,
\* get_user_sessions) returns a session, or data of one, that is expired at
\* the time of the call.
C2_LookupsNeverReturnExpired ==
    /\ (last.op \in {"get_session", "get_session_messages", "get_session_summary"}
        /\ last.ok) => Age(last.id) <= ExpiryHours
    /\ last.op = "get_user_sessions" =>
           \A k \in Range(last.ids) : Age(k) <= ExpiryHours

C2_Witness ==
    /\ last.op = "get_user_sessions"
    /\ \E k \in Keys(sessions) :
           /\ heap[k].user_id = last.user
           /\ Age(k) > ExpiryHours
           /\ k \notin Range(last.ids)

\* C3: add_message_to_session on an id that is not in the store, or whose
\* session is expired, returns None, appends no message to any session and
\* leaves the id out of the store.
C3_AddToMissingOrExpired ==
    [][\A id \in SessionIds :
          (/\ last'.op = "add_message_to_session"
           /\ last'.id = id
           /\ (id \notin Keys(sessions) \/ Age(id) > ExpiryHours))
          => (/\ ~last'.ok
              /\ last'.msgs = <<>>
              /\ heap' = heap
              /\ id \notin Keys(sessions'))]_vars

C3_Witness ==
    /\ last.op = "add_message_to_session"
    /\ last.present
    /\ Age(last.id) > ExpiryHours
    /\ ~last.ok
    /\ last.id \notin Keys(sessions)

\* C4: add_message with a role outside {user, assistant} fails and leaves
\* the message list unchanged: the call does not succeed, and no message
\* with an invalid role is ever stored in a session.
C4_InvalidRoleRejected ==
    /\ \A id \in DOMAIN heap :
           \A i \in 1..Len(heap[id].messages) :
               validate_role(heap[id].messages[i].role)
    /\ (last.op = "add_message_to_session" /\ last.ok) =>
           validate_role(last.msgs[1].role)

\* C5: for a live session with n messages and every limit >= 0,
\* get_session_messages returns exactly the last min(limit, n) messages in
\* order; with no limit it returns the full history.
LastMessages(m, k) ==
    LET c == IF k < Len(m) THEN k ELSE Len(m)
    IN SubSeq(m, Len(m) - c + 1, Len(m))

C5_LastMinLimitMessages ==
    (last.op = "get_session_messages" /\ last.ok) =>
        IF last.n < 0
        THEN last.msgs = heap[last.id].messages
        ELSE last.msgs = LastMessages(heap[last.id].messages, last.n)

C7_EvictedIsTerminal ==
    [][\A id \in DOMAIN heap :
          id \notin Keys(sessions) => id \notin Keys(sessions')]_vars

\* C10: every stored session has updated_at >= created_at, and each
\* successful add_message, clear_messages and end_session leaves updated_at
\* equal to the clock value at the call and not below its previous value.
C10_UpdatedAtMonotonic ==
    [][/\ \A id \in Keys(sessions') :
              heap'[id].updated_at >= heap'[id].created_at
       /\ (/\ last'.op \in {"add_message_to_session", "clear_session_messages",
                            "end_session"}
           /\ last'.ok)
          => (/\ heap'[last'.id].updated_at = now'
              /\ heap'[last'.id].updated_at >= heap[last'.id].updated_at)]_vars

C10_Witness ==
    /\ last.op = "end_session"
    /\ last.ok
    /\ heap[last.id].updated_at > heap[last.id].created_at
    /\ heap[last.id].updated_at = now

\* C8: when two add_message_to_session calls on the same live session have
\* both returned a message, with their lookup, append and write-back steps
\* interleaved in any order, both messages are in the session's history and
\* the stored updated_at is not earlier than the time of either append.
BothAdded(t, u) ==
    /\ t # u
    /\ th[t].op = "add" /\ th[t].pc = "done" /\ th[t].ok
    /\ th[u].op = "add" /\ th[u].pc = "done" /\ th[u].ok
    /\ th[t].id = th[u].id

C8_NoLostUpdates ==
    \A t, u \in Threads :
        BothAdded(t, u) =>
            /\ \E i \in 1..Len(heap[th[t].id].messages) :
                   heap[th[t].id].messages[i].content = ThreadContent(t)
            /\ heap[th[t].id].updated_at >= th[t].at

C8_Witness ==
    \E t, u \in Threads :
        /\ BothAdded(t, u)
        /\ th[u].conc
        /\ th[t].at < th[u].at
        /\ Len(heap[th[t].id].messages) = 2

\* C9: when evicting operations (cleanup_expired_sessions,
\* get_active_sessions_count, get_session, delete_session) interleave on a
\* store holding the same expired id, none of them fails with an error, and
\* once they have all returned every id they set out to remove is absent.
C9_EvictionsInterleaveSafely ==
    /\ \A t \in Threads :
           ~(th[t].pc = "error" /\ Age(th[t].victims[th[t].k + 1]) > ExpiryHours)
    /\ (\A t \in Threads : th[t].pc = "done" /\ th[t].op # "add") =>
           \A t \in Threads : Range(th[t].victims) \cap Keys(sessions) = {}

\* C11: the message sequence of a session is append-only.  A successful
\* add_message_to_session leaves the previous sequence as a strict prefix of
\* the new one, with exactly the returned message added at the end; a
\* successful clear_session_messages empties the sequence while the session
\* stays in the store with id, user_id and is_active unchanged; no other
\* step reorders, removes or alters the messages of any session.
C11_AppendOnly ==
    [][\A id \in DOMAIN heap :
          LET old == heap[id].messages
              new == heap'[id].messages
          IN IF last'.op = "add_message_to_session" /\ last'.ok /\ last'.id = id
             THEN /\ Len(new) = Len(old) + 1
                  /\ SubSeq(new, 1, Len(old)) = old
                  /\ new[Len(new)] = last'.msgs[1]
             ELSE IF last'.op = "clear_session_messages" /\ last'.ok
                     /\ last'.id = id
             THEN /\ new = <<>>
                  /\ id \in Keys(sessions')
                  /\ heap'[id].id = heap[id].id
                  /\ heap'[id].user_id = heap[id].user_id
                  /\ heap'[id].is_active = heap[id].is_active
             ELSE new = old]_vars

C11_Witness ==
    /\ last.op = "add_message_to_session"
    /\ last.ok
    /\ Len(heap[last.id].messages) = 2
    /\ heap[last.id].messages[1] # heap[last.id].messages[2]
    /\ heap[last.id].messages[2] = last.msgs[1]

\* C12: cleanup_expired_sessions removes exactly the sessions that are
\* expired at the time of the call, returns the number it removed and
\* leaves every session that is not expired unchanged and in place;
\* afterwards no expired session is in the store.
C12_CleanupExact ==
    [][last'.op = "cleanup_expired_sessions" =>
          /\ sessions' = SelectSeq(sessions, LAMBDA k : Age(k) <= ExpiryHours)
          /\ last'.n = Cardinality({k \in Keys(sessions) : Age(k) > ExpiryHours})
          /\ heap' = heap
          /\ \A k \in Keys(sessions') :
                 now' - heap'[k].updated_at <= ExpiryHours]_vars

C12_Witness ==
    /\ last.op = "cleanup_expired_sessions"
    /\ last.n = 1
    /\ Len(heap) = 2
    /\ Len(sessions) = 1

\* C13: end_session on a live session returns True and sets is_active to
\* false without touching its messages or removing it from the store; an
\* ended session that is not expired is still returned by get_session with
\* its messages intact; is_active never becomes true again; end_session on
\* a missing or expired id returns False and changes no session.
C13_EndSession ==
    [][/\ \A id \in DOMAIN heap :
              ~heap[id].is_active => ~heap'[id].is_active
       /\ last'.op = "end_session" =>
              IF last'.id \in Keys(sessions) /\ Age(last'.id) <= ExpiryHours
              THEN /\ last'.ok
                   /\ ~heap'[last'.id].is_active
                   /\ heap'[last'.id].messages = heap[last'.id].messages
                   /\ last'.id \in Keys(sessions')
              ELSE /\ ~last'.ok
                   /\ heap' = heap
       /\ (/\ last'.op = "get_session"
           /\ last'.id \in Keys(sessions)
           /\ ~heap[last'.id].is_active
           /\ Age(last'.id) <= ExpiryHours)
          => (/\ last'.ok
              /\ last'.ids = <<last'.id>>
              /\ last'.id \in Keys(sessions')
              /\ heap'[last'.id].messages = heap[last'.id].messages)]_vars

C13_Witness ==
    /\ last.op = "get_session"
    /\ last.ok
    /\ ~heap[last.id].is_active
    /\ heap[last.id].messages # <<>>
    /\ Age(last.id) = ExpiryHours

\* The candidates of docs that qualify for the last search: their
\* similarity to the query is at least min_score.
Qualifying ==
    {j \in 1..Len(docs) :
        Similarity(ret.query, docs[j].embedding) >= ret.min}

Returned == {ret.out[i].id : i \in 1..Len(ret.out)}

Smaller(a, b) == IF a < b THEN a ELSE b

\* C14: for every k >= 0 and every min_score, find_similar_documents
\* returns at most k documents, each a copy of a distinct stored candidate
\* with a score of at least min_score.
C14_AtMostK ==
    ret.op = "find_similar_documents" =>
        /\ Len(ret.out) <= ret.k
        /\ \A i \in 1..Len(ret.out) :
               /\ ret.out[i].score >= ret.min
               /\ \E j \in 1..Len(docs) :
                      ret.out[i] = [docs[j] EXCEPT !.score = ret.out[i].score]
        /\ \A i, j \in 1..Len(ret.out) :
               i # j => ret.out[i].id # ret.out[j].id

\* C15: for k >= 1 the list returned by find_similar_documents is sorted
\* by score in non-increasing order, whether the qualifying candidates are
\* at most k or more than k with some candidates excluded by min_score.
C15_SortedDescending ==
    (ret.op = "find_similar_documents" /\ ret.k >= 1) =>
        \A i \in 1..(Len(ret.out) - 1) :
            ret.out[i].score >= ret.out[i + 1].score

\* C16: for k >= 1, find_similar_documents returns exactly min(k, q)
\* documents, q being the number of qualifying candidates; every returned
\* document is a qualifying candidate with its similarity as score, and no
\* qualifying candidate left out has a higher score than a returned one.
\* An empty candidate set yields an empty list.
C16_ExactTopK ==
    ret.op = "find_similar_documents" =>
        /\ docs = <<>> => ret.out = <<>>
        /\ ret.k >= 1 =>
              /\ Len(ret.out) = Smaller(ret.k, Cardinality(Qualifying))
              /\ Cardinality(Returned) = Len(ret.out)
              /\ Returned \subseteq Qualifying
              /\ \A i \in 1..Len(ret.out) :
                     /\ ret.out[i].score =
                            Similarity(ret.query, docs[ret.out[i].id].embedding)
                     /\ \A j \in Qualifying \ Returned :
                            Similarity(ret.query, docs[j].embedding)
                                <= ret.out[i].score

C16_Witness ==
    /\ ret.op = "find_similar_documents"
    /\ ret.k = 2
    /\ Len(ret.out) = 2
    /\ Cardinality(Qualifying) = 3
    /\ Len(docs) = 4
    /\ \E j \in Qualifying \ Returned :
           Similarity(ret.query, docs[j].embedding) < ret.out[2].score

\* C17: documents of equal score are returned in the relative order they
\* have in the stored candidate list (stable tie-break).
C17_StableTies ==
    ret.op = "find_similar_documents" =>
        \A i, j \in 1..Len(ret.out) :
            (i < j /\ ret.out[i].score = ret.out[j].score)
                => ret.out[i].id < ret.out[j].id

\* the score the claim gives a candidate after a rerank with limit L (all
\* candidates when there is no limit): rescored if it is one of the first L
RerankLimit == IF ret.k < 0 THEN Len(docs) ELSE ret.k

MixedScore(j) ==
    IF j <= RerankLimit
    THEN calculate_relevance_score(ret.query, docs[j].embedding, docs[j].quality)
    ELSE docs[j].score

\* C18: rerank_documents with a limit L rescoring the first L candidates,
\* or with no limit rescoring all of them, returns exactly the input
\* candidates, each with its (possibly mixed) score, as one list sorted by
\* score in non-increasing order and stable on ties.
C18_RerankSortsAll ==
    ret.op = "rerank_documents" =>
        /\ Len(ret.out) = Len(docs)
        /\ Returned = 1..Len(docs)
        /\ \A i \in 1..Len(ret.out) :
               ret.out[i] = [docs[ret.out[i].id] EXCEPT
                                !.score = MixedScore(ret.out[i].id)]
        /\ \A i, j \in 1..Len(ret.out) :
               i < j => \/ ret.out[i].score > ret.out[j].score
                        \/ /\ ret.out[i].score = ret.out[j].score
                           /\ ret.out[i].id < ret.out[j].id

\* C19: the output of apply_diversity_filter is no longer than its input,
\* is not empty when the input is not empty, and every two kept candidates
\* have a similarity of at most the threshold.
C19_DiversePairs ==
    ret.op = "apply_diversity_filter" =>
        /\ Len(ret.out) <= Len(docs)
        /\ docs # <<>> => ret.out # <<>>
        /\ \A i, j \in 1..Len(ret.out) :
               i # j => cosine_similarity(ret.out[i].embedding,
                                          ret.out[j].embedding) <= ret.min

C19_Witness ==
    /\ ret.op = "apply_diversity_filter"
    /\ Len(docs) = 3
    /\ Len(ret.out) = 2
    /\ ret.out[2].id = 3
    /\ cosine_similarity(docs[2].embedding, docs[3].embedding) <= ret.min

\* the positions of the input that precede i and are kept
KeptBefore(i) == {j \in Returned : j < i}

\* C20: apply_diversity_filter is greedy and keeps the order: its output
\* is a subsequence of the input, the first candidate is always kept, and
\* a later candidate is dropped exactly when its similarity to some
\* candidate kept before it is strictly greater than the threshold.
C20_GreedySubsequence ==
    ret.op = "apply_diversity_filter" =>
        /\ \A i \in 1..Len(ret.out) : ret.out[i] = docs[ret.out[i].id]
        /\ \A i, j \in 1..Len(ret.out) :
               i < j => ret.out[i].id < ret.out[j].id
        /\ docs # <<>> => 1 \in Returned
        /\ \A i \in 2..Len(docs) :
               i \notin Returned <=>
                   \E j \in KeptBefore(i) :
                       cosine_similarity(docs[i].embedding, docs[j].embedding)
                           > ret.min

C20_Witness ==
    /\ ret.op = "apply_diversity_filter"
    /\ Len(docs) = 3
    /\ Returned = {1, 3}
    /\ cosine_similarity(docs[1].embedding, docs[3].embedding) = ret.min

\* C21: for every content, every query (absent, empty, matching or not)
\* and every snippet_size >= 1, the string returned by
\* create_context_preview has at most 2 * snippet_size characters.
C21_PreviewLength ==
    ret.op = "create_context_preview" => Len(ret.out) <= 2 * ret.k

\* C22: when a query term occurs in the content, create_context_preview
\* extracts at most 2 windows of at most snippet_size characters each, and
\* the second window starts at or after the end of the first.
C22_WindowsDisjoint ==
    ret.op = "create_context_preview" =>
        /\ Len(ret.windows) <= 2
        /\ \A i \in 1..Len(ret.windows) :
               ret.windows[i].end - ret.windows[i].start <= ret.k
        /\ Len(ret.windows) = 2 => ret.windows[2].start >= ret.windows[1].end

\* C23: create_source_references returns one SourceReference per input
\* candidate, in input order, with the candidate's id, its relative_path
\* ("Unknown" when absent), its score, and a preview that is the content
\* itself when the content has at most 200 characters and otherwise its
\* first 200 characters followed by "..." (203 characters).
C23_SourceReferences ==
    (ret.op = "create_source_references" /\ ~ret.raised) =>
        /\ Len(ret.out) = Len(docs)
        /\ \A i \in 1..Len(docs) :
               /\ ret.out[i].document_id = docs[i].id
               /\ ret.out[i].relative_path =
                      (IF docs[i].path = <<>> THEN "Unknown" ELSE docs[i].path[1])
               /\ ret.out[i].score = docs[i].score
               /\ IF Len(docs[i].content) <= 200
                  THEN ret.out[i].content_preview = docs[i].content
                  ELSE /\ Len(ret.out[i].content_preview) = 203
                       /\ SubSeq(ret.out[i].content_preview, 1, 200)
                              = SubSeq(docs[i].content, 1, 200)
                       /\ SubSeq(ret.out[i].content_preview, 201, 203)
                              = <<".", ".", ".">>

C23_Witness ==
    /\ ret.op = "create_source_references"
    /\ Len(ret.out) = 2
    /\ docs[1].path = <<>>
    /\ Len(docs[1].content) = 200
    /\ Len(ret.out[1].content_preview) = 200
    /\ Len(docs[2].content) = 300
    /\ Len(ret.out[2].content_preview) = 203

\* how relevant a label is
LabelRank(label) ==
    CASE label = "Highly Relevant" -> 4
      [] label = "Relevant" -> 3
      [] label = "Moderately Relevant" -> 2
      [] label = "Slightly Relevant" -> 1
      [] label = "Minimally Relevant" -> 0

\* C24: the relevance indicator of a score is Highly Relevant from 0.8,
\* Relevant from 0.6, Moderately Relevant from 0.4, Slightly Relevant from
\* 0.2 and Minimally Relevant below, and of two scores the higher never
\* gets the less relevant label.
C24_RelevanceLabels ==
    ret.op = "create_source_preview" =>
        /\ \A i \in 1..Len(ret.previews) :
               LET p == ret.previews[i] IN
               /\ p.score >= 800 <=> p.relevance_indicator = "Highly Relevant"
               /\ (p.score >= 600 /\ p.score < 800)
                      <=> p.relevance_indicator = "Relevant"
               /\ (p.score >= 400 /\ p.score < 600)
                      <=> p.relevance_indicator = "Moderately Relevant"
               /\ (p.score >= 200 /\ p.score < 400)
                      <=> p.relevance_indicator = "Slightly Relevant"
               /\ p.score < 200 <=> p.relevance_indicator = "Minimally Relevant"
        /\ \A i, j \in 1..Len(ret.previews) :
               ret.previews[i].score < ret.previews[j].score =>
                   LabelRank(ret.previews[i].relevance_indicator)
                       <= LabelRank(ret.previews[j].relevance_indicator)

C24_Witness ==
    /\ ret.op = "create_source_preview"
    /\ Len(ret.previews) = 2
    /\ ret.previews[1].score = 599
    /\ ret.previews[2].score = 600
    /\ ret.previews[1].relevance_indicator = "Moderately Relevant"
    /\ ret.previews[2].relevance_indicator = "Relevant"

\* C25: no candidate returned by find_similar_documents or
\* rerank_documents and no SourceReference returned by
\* create_source_references carries a score outside [0, 1], whatever the
\* min_score (negative values included), the embeddings and the quality
\* scores are.
C25_ScoresInUnitInterval ==
    ret.op \in {"find_similar_documents", "rerank_documents",
                "create_source_references"} =>
        \A i \in 1..Len(ret.out) :
            0 <= ret.out[i].score /\ ret.out[i].score <= 1000

\* C26: a session that is expired stays expired when it is written back
\* with update_session, so the next get_session for its id returns None.
C26_WriteBackKeepsExpired ==
    [][\A id \in DOMAIN heap :
          (/\ last'.op = "update_session"
           /\ last'.id = id
           /\ Age(id) > ExpiryHours)
          => now' - heap'[id].updated_at > ExpiryHours]_vars

\* C27: get_active_sessions_count returns the number of stored sessions
\* that are not expired and whose is_active flag is true; a session ended
\* with end_session is not counted.
C27_CountsActiveOnly ==
    last.op = "get_active_sessions_count" =>
        last.n = Cardinality({k \in Keys(sessions) :
                                 Age(k) <= ExpiryHours /\ heap[k].is_active})

\* C28: when delete_session(id) has returned True after beginning while an
\* add_message_to_session on the same id was between its lookup and its
\* write-back, and both calls have completed, the id is absent from the
\* store.
C28_DeleteNotUndone ==
    \A t, u \in Threads :
        (/\ th[t].op = "delete" /\ th[t].pc = "done" /\ th[t].ok /\ th[t].conc
         /\ th[u].op = "add" /\ th[u].pc = "done" /\ th[u].ok
         /\ th[t].id = th[u].id)
        => th[t].id \notin Keys(sessions)

\* C29: get_session, get_session_messages and get_session_summary on a
\* stored session that is not expired, and get_user_sessions, leave the
\* store and every session (updated_at, messages, is_active) unchanged, so
\* reading a session does not defer its expiry.
C29_ReadsChangeNothing ==
    [][/\ (/\ last'.op \in {"get_session", "get_session_messages",
                            "get_session_summary"}
           /\ last'.id \in Keys(sessions)
           /\ Age(last'.id) <= ExpiryHours)
          => (/\ last'.ok
              /\ sessions' = sessions
              /\ heap' = heap
              /\ now' = now)
       /\ last'.op = "get_user_sessions"
          => (sessions' = sessions /\ heap' = heap /\ now' = now)]_vars

C29_Witness ==
    /\ last.op = "get_session_summary"
    /\ last.ok
    /\ Age(last.id) = ExpiryHours
    /\ last.n = 1
    /\ last.id \in Keys(sessions)

\* C30: in a chunk_text call with chunk_size >= 1 and
\* 0 <= overlap < chunk_size, every iteration of the loop that does not end
\* the scan leaves start strictly greater than it was.
C30_StartIncreases ==
    [][(/\ ret.op = "chunk_text"
        /\ ret.pc = "loop"
        /\ ret'.pc = "loop"
        /\ ret.k >= 1
        /\ 0 <= ret.min
        /\ ret.min < ret.k)
       => ret'.start > ret.start]_vars
====
